---- MODULE Spec2Model ----
(***************************************************************************)
(* The Widget Engine of the React/AEM multi-root demo.                     *)
(*                                                                         *)
(*   demo/src/main.tsx      (src/unnamed/part_007)  mountWidget,           *)
(*                          unmountWidget, initializeWidgets,              *)
(*                          cleanupAllWidgets, the activeRoots Map         *)
(*   demo/src/registry.ts   (src/unnamed/part_006)  registry,              *)
(*                          isRegisteredWidget                             *)
(*   setup checklist main.jsx (src/unnamed/part_002) the MutationObserver  *)
(*                          that drops the entries of removed containers   *)
(*                          and initialize(), which starts it              *)
(*   implementation guide main.jsx, registry.js                            *)
(*                          (src/gemini/consolidated_implementation_guide  *)
(*                          .md) the engine with WCM modes, lazy           *)
(*                          hydration, scoped scans, registerComponent     *)
(*   POC findings mount script (src/unnamed/part_003) the engine with the  *)
(*                          cq-contentloaded listener and no observer      *)
(*   architecture document main.js (src/unnamed/part_001) the universal    *)
(*                          mount script with data-react-initialized and   *)
(*                          unmountAllWidgets                              *)
(*                                                                         *)
(* React itself is the environment: createRoot hands out a fresh root,     *)
(* root.render schedules the rendering (the lazy component resolves and    *)
(* renders, or throws, in a later turn), root.unmount tears the root down  *)
(* synchronously.  The host page is the other part of the environment: it  *)
(* wrote the containers' data attributes and it removes and re-inserts     *)
(* DOM nodes.                                                              *)
(***************************************************************************)
EXTENDS Integers, Sequences, FiniteSets, TLC

\* ------------------------------------------------------------------ bounds
NumContainers == 2          \* widget containers of the page
MaxRoots == 3               \* createRoot calls explored in one run
MaxHostOps == 2             \* removeChild and appendChild calls explored in one run
MaxObservers == 2           \* IntersectionObservers connected to one container at a time
MaxClicks == 2              \* clicks on "Try Again" explored in one run

\* --------------------------------------------------------------- the page
\* The page: document.body holds a plain wrapper element and the widget
\* containers; container 1 lies inside the wrapper.  Containers are numbered in
\* document order.
Containers == 1..NumContainers
Wrapper == NumContainers + 1
Body == NumContainers + 2
Nodes == Containers \cup {Wrapper}

\* Container 1 is a child of the wrapper, every other node a child of the body.
parentNode(n) == IF n = 1 THEN Wrapper ELSE Body

undefined == "<undefined>"  \* a missing attribute, a failed lookup

ValidProps == "{\"productId\":1}"
MalformedProps == "{not valid json"

\* A container's dataset: data-widget-component and data-props, written by
\* the host; data-lazy-hydrate, which the host may add; data-react-mounted,
\* which only the guide's engine writes.
Markup(widgetComponent, props, lazyHydrate) ==
    [widgetComponent |-> widgetComponent, props |-> props,
     lazyHydrate |-> lazyHydrate, reactMounted |-> undefined]

\* The markup the host may have written on a container.
Markups ==
    { Markup("ProductCard", ValidProps,     undefined),
      Markup("Calculator",  undefined,      undefined),
      Markup("ProductCard", MalformedProps, undefined),
      Markup("productcard", ValidProps,     undefined),
      Markup("toString",    undefined,      undefined),
      Markup(undefined,     ValidProps,     undefined) }

VARIABLES
    dataset,      \* container -> its data attributes (written by the host)
    linked,       \* the nodes that are currently children of their parent
    activeRoots,  \* the Map, in insertion order: <<[container, root, componentName]>>
    roots,        \* container -> the roots createRoot made on it, oldest first
    console,      \* what the last handler wrote to the console
    observing,    \* observer.observe(document.body, ...) has been called
    hostOps,      \* how many times the host has changed the DOM
    records,      \* removed nodes queued for the MutationObserver callback
    faulty,       \* container -> the call on its root that is made to throw
    wcmmode,      \* the WCM mode of the page: the wcmmode cookie or body attribute
    granite,      \* window.Granite.author is set: the page is open in the AEM editor
    intersectionObservers,  \* container -> the connected IntersectionObservers on it
    placeholder,  \* the containers whose content is the edit-mode placeholder
    lazy,         \* registered name -> how far its dynamic import has come
    clicks,       \* how many times the user has clicked "Try Again"
    readyState,   \* document.readyState
    dispatched,   \* DOMContentLoaded has been dispatched
    executed,     \* the bundle whose script has run on this page, or "none"
    listening,    \* the function listening for DOMContentLoaded, or "none"
    initialScans, \* how many times the entry point's scan has run
    pc,           \* where initialize() stands: "idle", or "observe" before its observer.observe
    registered,   \* the names registerComponent has added to the registry
    reloads,      \* the targets of the cq-contentloaded events not yet handled
    initialized   \* the containers that carry data-react-initialized

vars == <<dataset, linked, activeRoots, roots, console, observing, hostOps, records,
          faulty, wcmmode, granite, intersectionObservers, placeholder, lazy, clicks,
          readyState, dispatched, executed, listening, initialScans, pc, registered, reloads, initialized>>

\* What the engine of main.tsx and the observer of the setup never touch.
guideOnly == <<wcmmode, granite, intersectionObservers, placeholder>>

\* How far the loading of the page and of the bundle has come.
pageLoad == <<readyState, dispatched, executed, listening, initialScans, pc>>

\* What a test double of a root can be constructed to do: nothing unusual,
\* throw from createRoot(container), throw from root.render(...), throw from
\* root.unmount().
Faults == {"none", "createRoot", "render", "unmount"}

\* ------------------------------------------------------------- JavaScript
\* !x for the strings the engine tests.
Falsy(x) == x = undefined \/ x = ""

\* JSON.parse on the attribute values of this page: the parsed object as a
\* set of <<key, value>> pairs, or a SyntaxError.
JSONparse(text) ==
    CASE text = "{}"       -> [threw |-> FALSE, value |-> {}]
      [] text = ValidProps -> [threw |-> FALSE, value |-> {<<"productId", 1>>}]
      [] OTHER             -> [threw |-> TRUE,  value |-> {}]

\* A node is in the document when it and its ancestors are linked.
inDocument(n) ==
    /\ n \in linked
    /\ parentNode(n) = Body \/ parentNode(n) \in linked

Diag(level, message, subject) ==
    [level |-> level, message |-> message, subject |-> subject]

\* --------------------------------------------------------------- registry
\* The own keys of the registry object literal.
registryKeys == {"ProductCard", "Calculator"}

\* What every object literal inherits from Object.prototype.
ObjectPrototype == {"toString", "constructor", "hasOwnProperty", "valueOf"}

\* A registry whose values are import('./components/...') itself: every
\* import starts when the module is loaded.
registryEager == [name \in registryKeys |-> "pending"]

\* The registry module is loaded: every value is lazy(() => import(...)), a
\* component whose factory has not been called.
registry == [name \in registryKeys |-> "uninitialized"]

\* registry[name]: a property read, which follows the prototype chain.
registryGet(name) ==
    IF name \in registryKeys THEN name
    ELSE IF name \in ObjectPrototype THEN name
    ELSE undefined

\* name in registry
isRegisteredWidget(name) == name \in registryKeys \cup ObjectPrototype

\* ------------------------------------------------------- the Map, by key
\* A lookup by a key that no entry was stored under.
hasNever(map, c) == FALSE

has(map, c) == \E i \in 1..Len(map) : map[i].container = c

get(map, c) == map[CHOOSE i \in 1..Len(map) : map[i].container = c]

\* A table keyed by the component's name: a second widget of a name takes
\* the entry of the first.
setByName(map, c, root, componentName) ==
    LET e == [container |-> c, root |-> root, componentName |-> componentName]
    IN  IF \E i \in 1..Len(map) : map[i].componentName = componentName
        THEN [i \in 1..Len(map) |->
                 IF map[i].componentName = componentName THEN e ELSE map[i]]
        ELSE Append(map, e)

set(map, c, root, componentName) ==
    LET e == [container |-> c, root |-> root, componentName |-> componentName]
    IN  IF has(map, c)
        THEN [i \in 1..Len(map) |-> IF map[i].container = c THEN e ELSE map[i]]
        ELSE Append(map, e)

delete(map, c) == SelectSeq(map, LAMBDA e : e.container # c)

keys(map) == {map[i].container : i \in 1..Len(map)}

\* ------------------------------------------------------------------ React
\* createRoot(container) followed by root.render(...): a new root on the
\* container, its rendering scheduled.
createRoot(rs, c, Component, props) ==
    [rs EXCEPT ![c] = Append(@, [status |-> "rendering", unmounts |-> <<>>,
                                 component |-> Component, props |-> props])]

\* createRoot(container) whose root.render(...) throws: the root is there,
\* with nothing rendered into it and nothing scheduled.
createRootOnly(rs, c, Component, props) ==
    [rs EXCEPT ![c] = Append(@, [status |-> "created", unmounts |-> <<>>,
                                 component |-> Component, props |-> props])]

\* An unmount that is only noted (put off to a later turn): the scheduled
\* rendering is not cancelled.
rootUnmountDeferred(rs, c, r, caller) ==
    [rs EXCEPT ![c][r] = [@ EXCEPT !.unmounts = Append(@, caller)]]

\* root.unmount(): React tears the root down and runs the instance's cleanup.
\* `unmounts` keeps one mark per call, naming the caller.
rootUnmount(rs, c, r, caller) ==
    [rs EXCEPT ![c][r] = [@ EXCEPT !.status = "unmounted",
                                   !.unmounts = Append(@, caller)]]

\* root.unmount() throws: React tears the root down and then rethrows what a
\* cleanup of its tree threw.  The cleanups run in the first unmount() of a
\* root only; a later call finds nothing to tear down and returns.
unmountThrows(rs, c, r) == faulty[c] = "unmount" /\ rs[c][r].status # "unmounted"

\* One render tree for the whole page: what ends one rendering ends them all.
renderSettlesShared(rs, c, r, outcome) ==
    [d \in DOMAIN rs |->
        [i \in 1..Len(rs[d]) |->
            IF rs[d][i].status = "unmounted" THEN rs[d][i]
            ELSE [rs[d][i] EXCEPT !.status = outcome]]]

\* The scheduled rendering of a root comes to its end: the lazy component
\* resolved and rendered, or it threw.  No error boundary wraps the
\* component, so React empties the root whose component threw; the root itself
\* stays as it is until root.unmount().
renderSettles(rs, c, r, outcome) ==
    [rs EXCEPT ![c][r] = [@ EXCEPT !.status = outcome]]

\* A root is live from createRoot until unmount.
liveRoots(c) == {r \in 1..Len(roots[c]) : roots[c][r].status # "unmounted"}

\* ------------------------------------------------------------- the engine
\* The engine's state as its functions pass it on.
Engine(map, rs, out) ==
    [activeRoots |-> map, roots |-> rs, console |-> out, threw |-> FALSE]

\* An exception leaves the function: what was done so far stays done.
Throw(s) == [s EXCEPT !.threw = TRUE]

\* parseProps without its `if (!propsJson) return {}`.
parsePropsUnchecked(propsJson) ==
    LET p == JSONparse(propsJson)
    IN  IF p.threw
        THEN [value |-> {},
              console |-> <<Diag("error", "Invalid props JSON", propsJson)>>]
        ELSE [value |-> p.value, console |-> <<>>]

parseProps(propsJson) ==
    IF Falsy(propsJson) THEN [value |-> {}, console |-> <<>>]
    ELSE LET p == JSONparse(propsJson)
         IN  IF p.threw
             THEN [value |-> {},
                   console |-> <<Diag("error", "Invalid props JSON", propsJson)>>]
             ELSE [value |-> p.value, console |-> <<>>]

\* mountWidget that returns without a word when the name is missing.
mountUntrackedSilent(s, c) ==
    IF Falsy(dataset[c].widgetComponent) THEN s
    ELSE LET Component == registryGet(dataset[c].widgetComponent)
             props     == parseProps(dataset[c].props)
             rs        == createRoot(s.roots, c, Component, props.value)
         IN  IF Component = undefined
             THEN [s EXCEPT !.console = Append(@, Diag("warn", "not found in registry", c))]
             ELSE Engine(set(s.activeRoots, c, Len(rs[c]), dataset[c].widgetComponent),
                         rs,
                         s.console \o props.console \o <<Diag("log", "Mounted", c)>>)

\* mountWidget that notes a container it skipped, so as not to look at it
\* again.
mountUntrackedRemembersSkip(s, c) ==
    LET Component == registryGet(dataset[c].widgetComponent) 
        props     == parseProps(dataset[c].props)
        rs        == createRoot(s.roots, c, Component, props.value)
    IN  IF Falsy(dataset[c].widgetComponent) \/ Component = undefined
        THEN Engine(set(s.activeRoots, c, 0, undefined), s.roots,
                    Append(s.console, Diag("warn", "not found in registry", c)))
        ELSE Engine(set(s.activeRoots, c, Len(rs[c]), dataset[c].widgetComponent),
                    rs,
                    s.console \o props.console \o <<Diag("log", "Mounted", c)>>)

\* mountWidget that awaits the imports under way before it mounts: while one
\* is pending it has done nothing yet.
mountUntrackedAwaits(s, c) ==
    LET componentName == dataset[c].widgetComponent
        Component == registryGet(componentName)
        props == parseProps(dataset[c].props)
        rs    == createRoot(s.roots, c, Component, props.value)
    IN  IF \E name \in registryKeys : lazy[name] = "pending"
        THEN s
        ELSE IF Falsy(componentName) \/ Component = undefined
        THEN [s EXCEPT !.console = Append(@, Diag("warn", "not found in registry", c))]
        ELSE Engine(set(s.activeRoots, c, Len(rs[c]), componentName),
                    rs,
                    s.console \o props.console \o <<Diag("log", "Mounted", c)>>)

\* Steps 2 to 5 of mountWidget: what it does with a container it does not
\* track.
mountUntracked(s, c) ==
    LET componentName == dataset[c].widgetComponent IN
    IF Falsy(componentName)
    THEN [s EXCEPT !.console = Append(@, Diag("warn", "No widget-component specified", c))]
    ELSE
    LET Component == registryGet(componentName) IN
    IF Component = undefined
    THEN [s EXCEPT !.console = Append(@, Diag("warn", "not found in registry", c))]
    ELSE
    LET props == parseProps(dataset[c].props)
        rs    == createRoot(s.roots, c, Component, props.value)
    IN  IF faulty[c] = "createRoot"
        THEN Throw([s EXCEPT !.console = @ \o props.console])
        ELSE IF faulty[c] = "render"
        THEN Throw([s EXCEPT !.console = @ \o props.console,
                             !.roots = createRootOnly(@, c, Component, props.value)])
        ELSE Engine(set(s.activeRoots, c, Len(rs[c]), componentName),
                    rs,
                    s.console \o props.console \o <<Diag("log", "Mounted", c)>>)

\* mountWidget without its step 1.
mountWidgetUnguarded(s, c) == mountUntracked(s, c)

mountWidget(s, c) ==
    IF has(s.activeRoots, c)
    THEN [s EXCEPT !.console = Append(@, Diag("warn", "Widget already mounted", c))]
    ELSE mountUntracked(s, c)

\* unmountWidget without its entry.root.unmount().
unmountWidgetLeaks(s, c) ==
    IF has(s.activeRoots, c)
    THEN Engine(delete(s.activeRoots, c), s.roots,
                Append(s.console, Diag("log", "Unmounted", c)))
    ELSE s

\* unmountWidget without its `if (entry)`: entry.root of undefined is a
\* TypeError.
unmountWidgetUnchecked(s, c) ==
    IF has(s.activeRoots, c)
    THEN LET entry == get(s.activeRoots, c)
         IN  Engine(delete(s.activeRoots, c),
                    rootUnmount(s.roots, c, entry.root, "unmountWidget"),
                    Append(s.console, Diag("log", "Unmounted", c)))
    ELSE Throw(s)

unmountWidget(s, c) ==
    IF has(s.activeRoots, c)
    THEN LET entry == get(s.activeRoots, c)
             rs    == rootUnmount(s.roots, c, entry.root, "unmountWidget")
         IN  IF unmountThrows(s.roots, c, entry.root)
             THEN Throw([s EXCEPT !.roots = rs])
             ELSE Engine(delete(s.activeRoots, c), rs,
                         Append(s.console, Diag("log", "Unmounted", c)))
    ELSE s

\* containers.forEach(mountWidget): each call has returned, with its result
\* `next`, before forEach goes on to the rest.
RECURSIVE forEachMount(_, _)
forEachMount(containers, s) ==
    IF containers = <<>> \/ s.threw THEN s
    ELSE CHOOSE result \in
             {forEachMount(rest, next) :
                 rest \in {Tail(containers)},
                 next \in {mountWidget(s, Head(containers))}} : TRUE

\* forEach((_entry, container) => unmountWidget(container))
RECURSIVE forEachUnmount(_, _)
forEachUnmount(containers, s) ==
    IF containers = <<>> \/ s.threw THEN s
    ELSE forEachUnmount(Tail(containers), unmountWidget(s, Head(containers)))

\* The sequence of the elements of a set of numbers, ascending.
RECURSIVE inOrder(_)
inOrder(S) ==
    IF S = {} THEN <<>>
    ELSE LET m == CHOOSE x \in S : \A y \in S : x <= y
         IN  <<m>> \o inOrder(S \ {m})

\* document.querySelector: the first match only.
querySelectorFirst ==
    LET all == inOrder({c \in Containers : inDocument(c)})
    IN  IF all = <<>> THEN <<>> ELSE <<Head(all)>>

\* A querySelectorAll that returns its matches last to first.
querySelectorAllReversed ==
    LET all == inOrder({c \in Containers : inDocument(c)})
    IN  [i \in 1..Len(all) |-> all[Len(all) + 1 - i]]

\* document.querySelectorAll('.react-widget-container'): the containers in
\* the document, in document order.
querySelectorAll == inOrder({c \in Containers : inDocument(c)})

initializeWidgets(s) ==
    forEachMount(querySelectorAll,
            [s EXCEPT !.console = Append(@, Diag("log", "Scanning for widgets...", Body))])

\* activeRoots.forEach((_entry, container) => unmountWidget(container)):
\* the Map's keys in insertion order; an entry deleted during the walk is
\* not visited again.
cleanupAllWidgets(s) ==
    forEachUnmount([i \in 1..Len(s.activeRoots) |-> s.activeRoots[i].container], s)

\* ----------------------------------------------------------- the observer
\* The callback without its activeRoots.delete(node).
observerNodeKeepsEntry(s, node) ==
    IF node \in Nodes /\ has(s.activeRoots, node)
    THEN LET entry == get(s.activeRoots, node)
         IN  Engine(s.activeRoots,
                    rootUnmount(s.roots, node, entry.root, "observer"),
                    s.console)
    ELSE s

\* One removed node of one mutation record.
observerNode(s, node) ==
    IF node \in Nodes /\ has(s.activeRoots, node)
    THEN LET entry == get(s.activeRoots, node)
             rs    == rootUnmount(s.roots, node, entry.root, "observer")
         IN  IF unmountThrows(s.roots, node, entry.root)
             THEN Throw([s EXCEPT !.roots = rs])
             ELSE Engine(delete(s.activeRoots, node), rs, s.console)
    ELSE s

\* new MutationObserver((mutations) => mutations.forEach(...)): every
\* removed node of every record, in order.
RECURSIVE observer(_, _)
observer(s, mutations) ==
    IF mutations = <<>> \/ s.threw THEN s
    ELSE observer(observerNode(s, Head(mutations)), Tail(mutations))

\* A removal under the body is recorded; so is one inside a subtree whose
\* own removal is still waiting for the callback.
watched(p) ==
    \/ p = Body
    \/ inDocument(p)
    \/ \E i \in 1..Len(records) : records[i] = p

\* ---------------------------------------------------------------- actions
Fresh == Engine(activeRoots, roots, <<>>)

\* The page has loaded and the bundle's script has run; the scans are the
\* ones this run makes from here on.
PageLoaded ==
    /\ readyState = "complete"
    /\ dispatched = TRUE
    /\ executed = "main.tsx"
    /\ listening = "none"
    /\ initialScans = 0
    /\ pc = "idle"

RECURSIVE created(_, _)
created(rs, S) ==
    IF S = {} THEN 0
    ELSE LET c == CHOOSE x \in S : TRUE
         IN  Len(rs[c]) + created(rs, S \ {c})

WithinBounds(s) == created(s.roots, Containers) <= MaxRoots

\* The handler returns, or an exception leaves it and the browser reports it.
Becomes(s) ==
    /\ WithinBounds(s)
    /\ activeRoots' = s.activeRoots
    /\ roots' = s.roots
    /\ console' = IF s.threw
                  THEN Append(s.console, Diag("error", "Uncaught", Body))
                  ELSE s.console

Init ==
    /\ dataset \in [Containers -> Markups]
    /\ linked = Nodes
    /\ activeRoots = <<>>
    /\ roots = [c \in Containers |-> <<>>]
    /\ console = <<>>
    /\ observing = FALSE
    /\ hostOps = 0
    /\ records = <<>>
    /\ faulty = [c \in Containers |-> "none"]
    /\ wcmmode = "disabled"
    /\ granite = FALSE
    /\ intersectionObservers = [c \in Containers |-> 0]
    /\ placeholder = {}
    /\ lazy = registry
    /\ clicks = 0
    /\ PageLoaded
    /\ registered = {}
    /\ reloads = <<>>
    /\ initialized = {}

\* initializeWidgets(), from the DOMContentLoaded listener or a caller.
InitializeWidgets ==
    /\ Becomes(initializeWidgets(Fresh))
    /\ UNCHANGED <<dataset, linked, observing, hostOps, records, faulty, guideOnly, lazy, clicks, pageLoad, registered, reloads, initialized>>

\* mountWidget(container), the exported function called directly.
MountWidget(c) ==
    /\ Becomes(mountWidget(Fresh, c))
    /\ UNCHANGED <<dataset, linked, observing, hostOps, records, faulty, guideOnly, lazy, clicks, pageLoad, registered, reloads, initialized>>

\* unmountWidget(container), the exported function called directly.
UnmountWidget(c) ==
    /\ Becomes(unmountWidget(Fresh, c))
    /\ UNCHANGED <<dataset, linked, observing, hostOps, records, faulty, guideOnly, lazy, clicks, pageLoad, registered, reloads, initialized>>

\* cleanupAllWidgets()
CleanupAllWidgets ==
    /\ Becomes(cleanupAllWidgets(Fresh))
    /\ UNCHANGED <<dataset, linked, observing, hostOps, records, faulty, guideOnly, lazy, clicks, pageLoad, registered, reloads, initialized>>

\* initialize() of the setup's main.jsx: the first scan, then
\* observer.observe(document.body, {childList: true, subtree: true}).
Initialize ==
    /\ ~observing
    /\ Becomes(initializeWidgets(Fresh))
    /\ observing' = TRUE
    /\ UNCHANGED <<dataset, linked, hostOps, records, faulty, guideOnly, lazy, clicks, pageLoad, registered, reloads, initialized>>

\* React finishes the rendering that root.render scheduled.
Render(c, r, outcome) ==
    /\ r \in 1..Len(roots[c])
    /\ roots[c][r].status = "rendering"
    /\ roots' = renderSettles(roots, c, r, outcome)
    /\ console' = IF outcome = "failed"
                  THEN <<Diag("error", "Uncaught error while rendering", c)>>
                  ELSE <<>>
    /\ UNCHANGED <<dataset, linked, activeRoots, observing, hostOps, records, faulty, guideOnly, lazy, clicks, pageLoad, registered, reloads, initialized>>

\* The host takes node n out of its parent (parent.removeChild(n)).
HostRemove(n) ==
    /\ n \in linked
    /\ hostOps < MaxHostOps
    /\ hostOps' = hostOps + 1
    /\ linked' = linked \ {n}
    /\ records' = IF observing /\ watched(parentNode(n))
                  THEN Append(records, n)
                  ELSE records
    /\ console' = <<>>
    /\ UNCHANGED <<dataset, activeRoots, roots, observing, faulty, guideOnly, lazy, clicks, pageLoad, registered, reloads, initialized>>

\* The host puts node n back into its parent (parent.appendChild(n)).  The
\* record of an insertion has no removedNodes, so the callback does nothing
\* for it: it is not queued here.
HostInsert(n) ==
    /\ n \notin linked
    /\ hostOps < MaxHostOps
    /\ hostOps' = hostOps + 1
    /\ linked' = linked \cup {n}
    /\ console' = <<>>
    /\ UNCHANGED <<dataset, activeRoots, roots, observing, records, faulty, guideOnly, lazy, clicks, pageLoad, registered, reloads, initialized>>

\* The MutationObserver callback, run with all the records queued so far.
ObserverCallback ==
    /\ records # <<>>
    /\ Becomes(observer(Fresh, records))
    /\ records' = <<>>
    /\ UNCHANGED <<dataset, linked, observing, hostOps, faulty, guideOnly, lazy, clicks, pageLoad, registered, reloads, initialized>>

\* The engine on a page the host leaves alone.
Next ==
    \/ InitializeWidgets
    \/ \E c \in Containers : MountWidget(c)
    \/ \E c \in Containers : UnmountWidget(c)
    \/ CleanupAllWidgets
    \/ \E c \in Containers, r \in 1..MaxRoots,
          outcome \in {"rendered", "failed"} : Render(c, r, outcome)

Spec == Init /\ [][Next]_vars

\* The engine with its observer, on a page the host edits.  The renderings
\* stay scheduled here: what the observer does never reads a root's status.
NextObserved ==
    \/ Initialize
    \/ InitializeWidgets
    \/ \E c \in Containers : MountWidget(c)
    \/ \E c \in Containers : UnmountWidget(c)
    \/ CleanupAllWidgets
    \/ \E n \in Nodes : HostRemove(n)
    \/ \E n \in Nodes : HostInsert(n)
    \/ ObserverCallback

\* The pages explored with the observer: every container is either a valid
\* widget or names an unregistered component.
ObservedMarkups ==
    { Markup("ProductCard", ValidProps, undefined),
      Markup("productcard", ValidProps, undefined) }

InitObserved ==
    /\ Init
    /\ \A c \in Containers : dataset[c] \in ObservedMarkups

SpecObserved == InitObserved /\ [][NextObserved]_vars

\* The engine and its observer on roots that a test constructed to throw:
\* every container is a valid widget, and for each the test chose what its
\* root does.
InitFaulty ==
    /\ dataset \in [Containers -> {Markup("ProductCard", ValidProps, undefined)}]
    /\ linked = Nodes
    /\ activeRoots = <<>>
    /\ roots = [c \in Containers |-> <<>>]
    /\ console = <<>>
    /\ observing = FALSE
    /\ hostOps = 0
    /\ records = <<>>
    /\ faulty \in [Containers -> Faults]
    /\ wcmmode = "disabled"
    /\ granite = FALSE
    /\ intersectionObservers = [c \in Containers |-> 0]
    /\ placeholder = {}
    /\ lazy = registry
    /\ clicks = 0
    /\ PageLoaded
    /\ registered = {}
    /\ reloads = <<>>
    /\ initialized = {}

SpecFaulty == InitFaulty /\ [][NextObserved]_vars

\* ------------------------------------------------- the guide's main.jsx
\* The engine of the implementation guide: the same table, with the WCM mode,
\* lazy hydration, the data-react-mounted marker, scoped scans and an
\* observer that looks into the removed subtree.
Guide(s, ds, io, ph) ==
    [activeRoots |-> s.activeRoots, roots |-> s.roots, console |-> s.console,
     threw |-> s.threw, dataset |-> ds, intersectionObservers |-> io,
     placeholder |-> ph]

GuideFresh == Guide(Fresh, dataset, intersectionObservers, placeholder)

getWCMMode == wcmmode

isAuthorMode == granite

\* registry[name] in the guide's registry.js: the keys of the literal, the
\* names registerComponent has added, and what an object inherits.
guideRegistryGet(name) ==
    IF name \in registered THEN name ELSE registryGet(name)

\* The guide's mountWidget without its step 5: the widget is rendered whatever
\* the WCM mode.
guideMountIgnoresMode(s, c) ==
    LET componentName == s.dataset[c].widgetComponent
        Component == guideRegistryGet(componentName)
        propsAttribute == s.dataset[c].props
        parsed == IF Falsy(propsAttribute)
                  THEN [threw |-> FALSE, value |-> {}]
                  ELSE JSONparse(propsAttribute)
    IN
    IF Falsy(componentName)
    THEN [s EXCEPT !.console = Append(@, Diag("warn", "missing data-widget-component", c))]
    ELSE IF Component = undefined
    THEN [s EXCEPT !.console = Append(@, Diag("warn", "not found in registry", c))]
    ELSE IF parsed.threw
    THEN [s EXCEPT !.console = Append(@, Diag("error", "Invalid JSON in data-props", c))]
    ELSE
    LET rs == createRoot(s.roots, c, Component, parsed.value)
    IN  [s EXCEPT !.roots = rs,
                  !.activeRoots = set(@, c, Len(rs[c]), componentName),
                  !.dataset[c].reactMounted = "true"]

\* Steps 2 to 7 of the guide's mountWidget: what it does with a container it
\* does not track.
guideMountUntracked(s, c) ==
    LET componentName == s.dataset[c].widgetComponent IN
    IF Falsy(componentName)
    THEN [s EXCEPT !.console = Append(@, Diag("warn", "missing data-widget-component", c))]
    ELSE
    LET Component == guideRegistryGet(componentName) IN
    IF Component = undefined
    THEN [s EXCEPT !.console = Append(@, Diag("warn", "not found in registry", c))]
    ELSE
    LET propsAttribute == s.dataset[c].props
        parsed == IF Falsy(propsAttribute)
                  THEN [threw |-> FALSE, value |-> {}]
                  ELSE JSONparse(propsAttribute)
    IN
    IF parsed.threw
    THEN [s EXCEPT !.console = Append(@, Diag("error", "Invalid JSON in data-props", c))]
    ELSE IF getWCMMode = "edit"
    THEN [s EXCEPT !.placeholder = @ \cup {c}]
    ELSE IF faulty[c] = "createRoot"
    THEN [s EXCEPT !.console = Append(@, Diag("error", "Failed to mount", c))]
    ELSE IF faulty[c] = "render"
    THEN [s EXCEPT !.console = Append(@, Diag("error", "Failed to mount", c)),
                   !.roots = createRootOnly(@, c, Component, parsed.value)]
    ELSE
    LET rs == createRoot(s.roots, c, Component, parsed.value)
    IN  [s EXCEPT !.roots = rs,
                  !.activeRoots = set(@, c, Len(rs[c]), componentName),
                  !.dataset[c].reactMounted = "true"]

\* The guide's mountWidget without its step 1.
guideMountUnguarded(s, c) == guideMountUntracked(s, c)

guideMountWidget(s, c) ==
    IF has(s.activeRoots, c) THEN s ELSE guideMountUntracked(s, c)

\* The guide's unmountWidget without its last line: the marker stays.
guideUnmountKeepsMarker(s, c) ==
    IF has(s.activeRoots, c)
    THEN LET root == get(s.activeRoots, c).root
             rs   == rootUnmount(s.roots, c, root, "unmountWidget")
         IN  IF unmountThrows(s.roots, c, root)
             THEN Throw([s EXCEPT !.roots = rs])
             ELSE [s EXCEPT !.roots = rs, !.activeRoots = delete(@, c)]
    ELSE s

guideUnmountWidget(s, c) ==
    IF has(s.activeRoots, c)
    THEN LET root == get(s.activeRoots, c).root
             rs   == rootUnmount(s.roots, c, root, "unmountWidget")
         IN  IF unmountThrows(s.roots, c, root)
             THEN Throw([s EXCEPT !.roots = rs])
             ELSE [s EXCEPT !.roots = rs,
                            !.activeRoots = delete(@, c),
                            !.dataset[c].reactMounted = undefined]
    ELSE s

\* A new IntersectionObserver on the container, unless it is mounted.
setupLazyHydration(s, c) ==
    IF has(s.activeRoots, c) THEN s
    ELSE [s EXCEPT !.intersectionObservers[c] = @ + 1]

\* The callback of one IntersectionObserver of c, with an entry that
\* intersects: mountWidget(container); observer.disconnect().
\* An exception of mountWidget would leave the observer connected.
intersectionCallback(s, c) ==
    LET m == guideMountWidget(s, c)
    IN  IF m.threw THEN m
        ELSE [m EXCEPT !.intersectionObservers[c] = @ - 1]

\* A scan that looks through the whole document, whatever the scope.
selectsInDocument(ds, scope, c) ==
    /\ ds[c].widgetComponent # undefined
    /\ inDocument(c)

\* c is selected by scope.querySelectorAll('[data-widget-component]').
selects(ds, scope, c) ==
    /\ ds[c].widgetComponent # undefined
    /\ IF scope = Body THEN inDocument(c)
       ELSE parentNode(c) = scope /\ c \in linked

\* initWidgets that mounts every container at once, data-lazy-hydrate or not.
RECURSIVE forEachInitEager(_, _)
forEachInitEager(containers, s) ==
    IF containers = <<>> \/ s.threw THEN s
    ELSE forEachInitEager(Tail(containers), guideMountWidget(s, Head(containers)))

RECURSIVE forEachInit(_, _)
forEachInit(containers, s) ==
    IF containers = <<>> \/ s.threw THEN s
    ELSE LET c == Head(containers)
         IN  forEachInit(Tail(containers),
                         IF s.dataset[c].lazyHydrate = "true"
                         THEN setupLazyHydration(s, c)
                         ELSE guideMountWidget(s, c))

initWidgets(s, scope) ==
    forEachInit(inOrder({c \in Containers : selects(s.dataset, scope, c)}), s)

RECURSIVE forEachChild(_, _)
forEachChild(containers, s) ==
    IF containers = <<>> \/ s.threw THEN s
    ELSE forEachChild(Tail(containers),
                      IF has(s.activeRoots, Head(containers))
                      THEN guideUnmountWidget(s, Head(containers))
                      ELSE s)

\* One removed node: the node itself, then the containers inside it.
mutationNode(s, node) ==
    LET own == IF node \in Containers /\ has(s.activeRoots, node)
               THEN guideUnmountWidget(s, node)
               ELSE s
    IN  forEachChild(inOrder({c \in Containers : selects(s.dataset, node, c)}), own)

RECURSIVE setupMutationObserver(_, _)
setupMutationObserver(s, mutations) ==
    IF mutations = <<>> \/ s.threw THEN s
    ELSE setupMutationObserver(mutationNode(s, Head(mutations)), Tail(mutations))

GuideBecomes(s) ==
    /\ Becomes(s)
    /\ \A c \in Containers : s.intersectionObservers[c] <= MaxObservers
    /\ dataset' = s.dataset
    /\ intersectionObservers' = s.intersectionObservers
    /\ placeholder' = s.placeholder

\* initialize(): the first scan, then the observer, then the listener for
\* cq-contentloaded when the page is open in the editor.
GuideInitialize ==
    /\ ~observing
    /\ GuideBecomes(initWidgets(GuideFresh, Body))
    /\ observing' = TRUE
    /\ UNCHANGED <<linked, hostOps, records, faulty, wcmmode, granite, lazy, clicks, pageLoad, registered, reloads, initialized>>

\* The listener for cq-contentloaded: initWidgets(event.target || document).
ContentLoaded(target) ==
    /\ observing
    /\ isAuthorMode
    /\ GuideBecomes(initWidgets(GuideFresh, target))
    /\ UNCHANGED <<linked, observing, hostOps, records, faulty, wcmmode, granite, lazy, clicks, pageLoad, registered, reloads, initialized>>

\* A lazy container comes into view: one of its observers is called back.
Intersect(c) ==
    /\ intersectionObservers[c] > 0
    /\ inDocument(c)
    /\ GuideBecomes(intersectionCallback(GuideFresh, c))
    /\ UNCHANGED <<linked, observing, hostOps, records, faulty, wcmmode, granite, lazy, clicks, pageLoad, registered, reloads, initialized>>

\* The MutationObserver callback, run with all the records queued so far.
GuideObserverCallback ==
    /\ records # <<>>
    /\ GuideBecomes(setupMutationObserver(GuideFresh, records))
    /\ records' = <<>>
    /\ UNCHANGED <<linked, observing, hostOps, faulty, wcmmode, granite, lazy, clicks, pageLoad, registered, reloads, initialized>>

\* The guide's engine as the page drives it: its entry point, the editor's
\* events, the two kinds of observer callbacks, and the host's DOM changes.
NextGuide ==
    \/ GuideInitialize
    \/ \E target \in Nodes \cup {Body} : ContentLoaded(target)
    \/ \E c \in Containers : Intersect(c)
    \/ \E n \in Nodes : HostRemove(n)
    \/ \E n \in Nodes : HostInsert(n)
    \/ GuideObserverCallback

\* The pages explored with the guide's engine: valid widgets, mounted at once
\* or lazily, and a widget whose props do not parse.
GuideMarkups ==
    { Markup("ProductCard", ValidProps,     undefined),
      Markup("ProductCard", ValidProps,     "true"),
      Markup("Calculator",  MalformedProps, undefined) }

InitGuide ==
    /\ dataset \in [Containers -> GuideMarkups]
    /\ linked = Nodes
    /\ activeRoots = <<>>
    /\ roots = [c \in Containers |-> <<>>]
    /\ console = <<>>
    /\ observing = FALSE
    /\ hostOps = 0
    /\ records = <<>>
    /\ faulty = [c \in Containers |-> "none"]
    /\ wcmmode \in {"disabled", "edit"}
    /\ granite \in BOOLEAN
    /\ intersectionObservers = [c \in Containers |-> 0]
    /\ placeholder = {}
    /\ lazy = registry
    /\ clicks = 0
    /\ PageLoaded
    /\ registered = {}
    /\ reloads = <<>>
    /\ initialized = {}

SpecGuide == InitGuide /\ [][NextGuide]_vars

\* ------------------------------------------------------ registerComponent
\* registerComponent that also unmounts the widgets of that name, for the
\* next scan to mount them with the new component.
registerComponentRemounts(s, name) ==
    forEachChild(inOrder({c \in Containers :
                             /\ has(s.activeRoots, c)
                             /\ get(s.activeRoots, c).componentName = name}),
                 s)

\* registerComponent(name, component): a warning when registry[name] is
\* there already; the assignment registry[name] = ... is the action's.
registerComponent(s, name) ==
    IF guideRegistryGet(name) # undefined
    THEN [s EXCEPT !.console = Append(@, Diag("warn", "Overwriting existing component", name))]
    ELSE s

\* The names a caller registers at run time: a new one and an existing one.
RegistrableNames == {"productcard", "ProductCard"}

RegisterComponent(name) ==
    /\ GuideBecomes(registerComponent(GuideFresh, name))
    /\ registered' = registered \cup {name}
    /\ UNCHANGED <<linked, observing, hostOps, records, faulty, wcmmode, granite, lazy,
                   clicks, pageLoad, reloads, initialized>>

\* The guide's engine on a page in the editor, with a caller that registers
\* components while the page is there.
NextRegistry ==
    \/ GuideInitialize
    \/ \E target \in Nodes \cup {Body} : ContentLoaded(target)
    \/ \E name \in RegistrableNames : RegisterComponent(name)
    \/ \E n \in Nodes : HostRemove(n)
    \/ \E n \in Nodes : HostInsert(n)
    \/ GuideObserverCallback

InitRegistry ==
    /\ dataset \in [Containers -> ObservedMarkups]
    /\ linked = Nodes
    /\ activeRoots = <<>>
    /\ roots = [c \in Containers |-> <<>>]
    /\ console = <<>>
    /\ observing = FALSE
    /\ hostOps = 0
    /\ records = <<>>
    /\ faulty = [c \in Containers |-> "none"]
    /\ wcmmode = "disabled"
    /\ granite = TRUE
    /\ intersectionObservers = [c \in Containers |-> 0]
    /\ placeholder = {}
    /\ lazy = registry
    /\ clicks = 0
    /\ PageLoaded
    /\ registered = {}
    /\ reloads = <<>>
    /\ initialized = {}

SpecRegistry == InitRegistry /\ [][NextRegistry]_vars

\* ------------------------------------------------------ the ErrorBoundary
\* The widget tree of the guide's mountWidget, with the ErrorBoundary of the
\* technical design, whose fallback has a "Try Again" button:
\*   <ErrorBoundary><Suspense><Component {...props} /></Suspense></ErrorBoundary>
\* A root's status is what its boundary shows: "rendering" (the Suspense
\* fallback, the children not rendered yet), "rendered" (the children),
\* "fallback" (state.hasError).

\* static getDerivedStateFromError(error): { hasError: true, error }
getDerivedStateFromError == "fallback"

\* The children, <Suspense><Component/></Suspense>, rendered: a lazy
\* component that has not resolved suspends, one whose import was rejected
\* throws that error again, a resolved one renders or throws.
renderChildren(payload, outcome) ==
    CASE payload = "resolved" ->
            IF outcome = "rendered" THEN "rendered" ELSE getDerivedStateFromError
      [] payload = "rejected" -> getDerivedStateFromError
      [] OTHER -> "rendering"

\* render() without its `if (this.state.hasError)`.
ErrorBoundaryRenderForgets(status, payload, outcome) ==
    renderChildren(payload, outcome)

\* ErrorBoundary.render()
ErrorBoundaryRender(status, payload, outcome) ==
    IF status = "fallback" THEN "fallback"
    ELSE renderChildren(payload, outcome)

\* React.lazy: the first rendering of the component calls the factory, which
\* starts the import; the outcome of that one import is kept for good.
lazyInit(payload) == IF payload = "uninitialized" THEN "pending" ELSE payload

\* onClick of "Try Again": this.setState({ hasError: false, error: null }).
\* Nothing is done about the lazy component.
tryAgain(payload) == payload

\* React renders the tree of root r of container c (again).
BoundaryRender(c, r, outcome) ==
    /\ r \in 1..Len(roots[c])
    /\ roots[c][r].status # "unmounted"
    /\ LET name    == roots[c][r].component
           payload == IF roots[c][r].status = "fallback" THEN lazy[name]
                      ELSE lazyInit(lazy[name])
           status  == ErrorBoundaryRender(roots[c][r].status, payload, outcome)
       IN  /\ lazy' = [lazy EXCEPT ![name] = payload]
           /\ roots' = [roots EXCEPT ![c][r].status = status]
           /\ console' = IF status = "fallback" /\ roots[c][r].status # "fallback"
                         THEN <<Diag("error", "Error in widget", c)>>
                         ELSE <<>>
    /\ UNCHANGED <<dataset, linked, activeRoots, observing, hostOps, records, faulty,
                   guideOnly, clicks, pageLoad, registered, reloads, initialized>>

\* The dynamic import of a component settles.
LazySettles(name, payload) ==
    /\ lazy[name] = "pending"
    /\ lazy' = [lazy EXCEPT ![name] = payload]
    /\ console' = <<>>
    /\ UNCHANGED <<dataset, linked, activeRoots, roots, observing, hostOps, records,
                   faulty, guideOnly, clicks, pageLoad, registered, reloads, initialized>>

\* The user clicks "Try Again" in the fallback of root r of container c.
TryAgain(c, r) ==
    /\ r \in 1..Len(roots[c])
    /\ roots[c][r].status = "fallback"
    /\ clicks < MaxClicks
    /\ clicks' = clicks + 1
    /\ roots' = [roots EXCEPT ![c][r].status = "rendering"]
    /\ lazy' = [lazy EXCEPT ![roots[c][r].component] = tryAgain(@)]
    /\ console' = <<>>
    /\ UNCHANGED <<dataset, linked, activeRoots, observing, hostOps, records, faulty,
                   guideOnly, pageLoad, registered, reloads, initialized>>

\* mountWidget(container), the exported function called directly.
GuideMountWidget(c) ==
    /\ GuideBecomes(guideMountWidget(GuideFresh, c))
    /\ UNCHANGED <<linked, observing, hostOps, records, faulty, wcmmode, granite,
                   lazy, clicks, pageLoad, registered, reloads, initialized>>

\* unmountWidget(container), the exported function called directly.
GuideUnmountWidget(c) ==
    /\ GuideBecomes(guideUnmountWidget(GuideFresh, c))
    /\ UNCHANGED <<linked, observing, hostOps, records, faulty, wcmmode, granite,
                   lazy, clicks, pageLoad, registered, reloads, initialized>>

\* Widgets with their boundaries: mounted and unmounted through the exported
\* functions, rendered by React, retried by the user.
NextBoundary ==
    \/ \E c \in Containers : GuideMountWidget(c)
    \/ \E c \in Containers : GuideUnmountWidget(c)
    \/ \E c \in Containers, r \in 1..MaxRoots,
          outcome \in {"rendered", "failed"} : BoundaryRender(c, r, outcome)
    \/ \E name \in registryKeys,
          payload \in {"resolved", "rejected"} : LazySettles(name, payload)
    \/ \E c \in Containers, r \in 1..MaxRoots : TryAgain(c, r)

BoundaryMarkups ==
    { Markup("ProductCard", ValidProps, undefined),
      Markup("Calculator",  undefined,  undefined) }

InitBoundary ==
    /\ Init
    /\ \A c \in Containers : dataset[c] \in BoundaryMarkups

SpecBoundary == InitBoundary /\ [][NextBoundary]_vars

\* ------------------------------------------------------------ the startup
\* The loading of the page, and the entry points of main.tsx and of the
\* setup's main.jsx, which either call their function or leave it to the
\* DOMContentLoaded listener.  initialize() of main.jsx is taken one
\* statement at a time, to tell the order of its scan and its
\* observer.observe; nothing else runs between the two.
StartupFrame ==
    UNCHANGED <<dataset, linked, hostOps, records, faulty, guideOnly, lazy, clicks,
                registered, reloads, initialized>>

\* The parser reaches the end of the document.
ParserFinishes ==
    /\ readyState = "loading"
    /\ pc = "idle"
    /\ readyState' = "interactive"
    /\ StartupFrame
    /\ UNCHANGED <<activeRoots, roots, console, observing, dispatched, executed,
                   listening, initialScans, pc>>

\* The window has loaded.
Load ==
    /\ readyState = "interactive"
    /\ dispatched
    /\ pc = "idle"
    /\ readyState' = "complete"
    /\ StartupFrame
    /\ UNCHANGED <<activeRoots, roots, console, observing, dispatched, executed,
                   listening, initialScans, pc>>

\* The entry point of main.tsx that always leaves the scan to the listener.
EntryPointListensOnly ==
    /\ executed = "none"
    /\ executed' = "main.tsx"
    /\ listening' = "initializeWidgets"
    /\ StartupFrame
    /\ UNCHANGED <<activeRoots, roots, console, observing, readyState, dispatched,
                   initialScans, pc>>

\* The script of main.tsx runs: its last statement is the entry point.
EntryPoint ==
    /\ executed = "none"
    /\ executed' = "main.tsx"
    /\ IF readyState = "loading"
       THEN /\ listening' = "initializeWidgets"
            /\ UNCHANGED <<activeRoots, roots, console, initialScans>>
       ELSE /\ Becomes(initializeWidgets(Fresh))
            /\ initialScans' = initialScans + 1
            /\ listening' = listening
    /\ StartupFrame
    /\ UNCHANGED <<observing, readyState, dispatched, pc>>

\* The script of the setup's main.jsx runs: its entry point calls
\* initialize(), whose first statement is initWidgets(document), or leaves
\* initialize to the listener.
SetupEntryPoint ==
    /\ executed = "none"
    /\ executed' = "main.jsx"
    /\ IF readyState = "loading"
       THEN /\ listening' = "initialize"
            /\ UNCHANGED <<activeRoots, roots, console, initialScans, pc>>
       ELSE /\ Becomes(initializeWidgets(Fresh))
            /\ initialScans' = initialScans + 1
            /\ pc' = "observe"
            /\ listening' = listening
    /\ StartupFrame
    /\ UNCHANGED <<observing, readyState, dispatched>>

\* The browser dispatches DOMContentLoaded, once, and the listener runs.
DOMContentLoaded ==
    /\ readyState = "interactive"
    /\ ~dispatched
    /\ pc = "idle"
    /\ dispatched' = TRUE
    /\ CASE listening = "initializeWidgets" ->
                /\ Becomes(initializeWidgets(Fresh))
                /\ initialScans' = initialScans + 1
                /\ pc' = pc
         [] listening = "initialize" ->
                /\ Becomes(initializeWidgets(Fresh))
                /\ initialScans' = initialScans + 1
                /\ pc' = "observe"
         [] OTHER ->
                UNCHANGED <<activeRoots, roots, console, initialScans, pc>>
    /\ StartupFrame
    /\ UNCHANGED <<observing, readyState, executed, listening>>

\* initialize() that returns without its observer.observe.
ObserveSkipped ==
    /\ pc = "observe"
    /\ pc' = "idle"
    /\ StartupFrame
    /\ UNCHANGED <<activeRoots, roots, console, observing, readyState, dispatched,
                   executed, listening, initialScans>>

\* The second statement of initialize():
\* observer.observe(document.body, { childList: true, subtree: true }).
Observe ==
    /\ pc = "observe"
    /\ observing' = TRUE
    /\ pc' = "idle"
    /\ StartupFrame
    /\ UNCHANGED <<activeRoots, roots, console, readyState, dispatched, executed,
                   listening, initialScans>>

\* The page loads, one of the bundles runs, the host edits the DOM whenever
\* no script is running.
NextStartup ==
    \/ ParserFinishes
    \/ DOMContentLoaded
    \/ Load
    \/ EntryPoint
    \/ SetupEntryPoint
    \/ Observe
    \/ \E n \in Nodes : pc = "idle" /\ HostRemove(n)
    \/ \E n \in Nodes : pc = "idle" /\ HostInsert(n)
    \/ pc = "idle" /\ ObserverCallback

\* The script may run at any time of the loading: in the head while the
\* parser works, deferred, or injected when the page has long been there.
InitStartup ==
    /\ dataset \in [Containers -> ObservedMarkups]
    /\ linked = Nodes
    /\ activeRoots = <<>>
    /\ roots = [c \in Containers |-> <<>>]
    /\ console = <<>>
    /\ observing = FALSE
    /\ hostOps = 0
    /\ records = <<>>
    /\ faulty = [c \in Containers |-> "none"]
    /\ wcmmode = "disabled"
    /\ granite = FALSE
    /\ intersectionObservers = [c \in Containers |-> 0]
    /\ placeholder = {}
    /\ lazy = registry
    /\ clicks = 0
    /\ readyState \in {"loading", "interactive", "complete"}
    /\ dispatched \in BOOLEAN
    /\ readyState = "loading" => ~dispatched
    /\ readyState = "complete" => dispatched
    /\ executed = "none"
    /\ listening = "none"
    /\ initialScans = 0
    /\ pc = "idle"
    /\ registered = {}
    /\ reloads = <<>>
    /\ initialized = {}

\* The browser runs the script it was given, finishes parsing, dispatches
\* DOMContentLoaded, and runs a started function to its end.
SpecStartup ==
    /\ InitStartup
    /\ [][NextStartup]_vars
    /\ WF_vars(EntryPoint \/ SetupEntryPoint)
    /\ WF_vars(ParserFinishes)
    /\ WF_vars(DOMContentLoaded)
    /\ WF_vars(Observe)

\* ------------------------------------------------- the POC's mount script
\* The Widget Engine of the POC findings, for a page open in the AEM editor:
\* scans with a scope, no observer, and a listener for cq-contentloaded.

\* mountWidget: the entry is the root alone.
pocMountWidget(s, c) ==
    IF has(s.activeRoots, c)
    THEN [s EXCEPT !.console = Append(@, Diag("warn", "Widget already mounted", c))]
    ELSE
    LET componentName == dataset[c].widgetComponent
        Component     == registryGet(componentName)
    IN
    IF Component = undefined
    THEN [s EXCEPT !.console = Append(@, Diag("warn", "not found in registry", c))]
    ELSE
    LET propsJson == IF Falsy(dataset[c].props) THEN "{}" ELSE dataset[c].props
        parsed    == JSONparse(propsJson)
    IN
    IF parsed.threw
    THEN [s EXCEPT !.console = Append(@, Diag("error", "Invalid props JSON", c))]
    ELSE IF faulty[c] = "createRoot"
    THEN Throw(s)
    ELSE IF faulty[c] = "render"
    THEN Throw([s EXCEPT !.roots = createRootOnly(@, c, Component, parsed.value)])
    ELSE LET rs == createRoot(s.roots, c, Component, parsed.value)
         IN  Engine(set(s.activeRoots, c, Len(rs[c]), undefined), rs, s.console)

\* containers.forEach(mountWidget): each call has returned, with its result
\* `next`, before forEach goes on to the rest.
RECURSIVE pocForEachMount(_, _)
pocForEachMount(containers, s) ==
    IF containers = <<>> \/ s.threw THEN s
    ELSE CHOOSE result \in
             {pocForEachMount(rest, next) :
                 rest \in {Tail(containers)},
                 next \in {pocMountWidget(s, Head(containers))}} : TRUE

\* initializeWidgets(scope = document)
pocInitializeWidgets(s, scope) ==
    pocForEachMount(inOrder({c \in Containers : selects(dataset, scope, c)}), s)

\* activeRoots.forEach((root) => root.unmount())
RECURSIVE forEachRootUnmount(_, _)
forEachRootUnmount(entries, s) ==
    IF entries = <<>> \/ s.threw THEN s
    ELSE LET e  == Head(entries)
             rs == rootUnmount(s.roots, e.container, e.root, "unmountAllWidgets")
         IN  forEachRootUnmount(Tail(entries),
                 IF unmountThrows(s.roots, e.container, e.root)
                 THEN Throw([s EXCEPT !.roots = rs])
                 ELSE [s EXCEPT !.roots = rs])

\* unmountAllWidgets(): every root unmounted, then activeRoots.clear().
unmountAllWidgets(s) ==
    LET u == forEachRootUnmount(s.activeRoots, s)
    IN  IF u.threw THEN u ELSE [u EXCEPT !.activeRoots = <<>>]

EditorFrame ==
    UNCHANGED <<dataset, observing, records, faulty, guideOnly, lazy, clicks,
                readyState, dispatched, listening, initialScans, pc, registered,
                initialized>>

\* The mount script runs in a document that is ready: initializeWidgets(document),
\* and the listener for cq-contentloaded, since window.Granite.author is set.
PocEntryPoint ==
    /\ executed = "none"
    /\ executed' = "mount script"
    /\ Becomes(pocInitializeWidgets(Fresh, Body))
    /\ EditorFrame
    /\ UNCHANGED <<linked, hostOps, reloads, initialized>>

\* An author has edited a component: the editor takes the node of container
\* `old` out of the document, puts the node of `new`, which it built from the
\* new markup, into the document and triggers cq-contentloaded on the
\* parent of the new node.
EditorRefresh(old, new) ==
    /\ isAuthorMode
    /\ old # new
    /\ inDocument(old)
    /\ new \notin linked
    /\ hostOps < MaxHostOps
    /\ hostOps' = hostOps + 1
    /\ linked' = (linked \ {old}) \cup {new}
    /\ reloads' = Append(reloads, parentNode(new))
    /\ console' = <<>>
    /\ EditorFrame
    /\ UNCHANGED <<activeRoots, roots, executed>>

\* The listener for cq-contentloaded: initializeWidgets(event.target).
CqContentLoaded ==
    /\ executed = "mount script"
    /\ isAuthorMode
    /\ reloads # <<>>
    /\ Becomes(pocInitializeWidgets(Fresh, Head(reloads)))
    /\ reloads' = Tail(reloads)
    /\ EditorFrame
    /\ UNCHANGED <<linked, hostOps, executed>>

\* unmountAllWidgets(), called before the page is left.
UnmountAllWidgets ==
    /\ executed = "mount script"
    /\ Becomes(unmountAllWidgets(Fresh))
    /\ EditorFrame
    /\ UNCHANGED <<linked, hostOps, executed, reloads, initialized>>

NextEditor ==
    \/ PocEntryPoint
    \/ \E old, new \in Containers : EditorRefresh(old, new)
    \/ CqContentLoaded
    \/ UnmountAllWidgets

\* The page in the editor: one container is the node the editor will build
\* for a refresh; it is not in the document yet.
InitEditor ==
    /\ dataset \in [Containers -> ObservedMarkups]
    /\ \E spare \in Containers : linked = Nodes \ {spare}
    /\ activeRoots = <<>>
    /\ roots = [c \in Containers |-> <<>>]
    /\ console = <<>>
    /\ observing = FALSE
    /\ hostOps = 0
    /\ records = <<>>
    /\ faulty = [c \in Containers |-> "none"]
    /\ wcmmode = "disabled"
    /\ granite = TRUE
    /\ intersectionObservers = [c \in Containers |-> 0]
    /\ placeholder = {}
    /\ lazy = registry
    /\ clicks = 0
    /\ readyState = "complete"
    /\ dispatched = TRUE
    /\ executed = "none"
    /\ listening = "none"
    /\ initialScans = 0
    /\ pc = "idle"
    /\ registered = {}
    /\ reloads = <<>>
    /\ initialized = {}

\* The browser runs the script and delivers every event that was triggered.
SpecEditor ==
    /\ InitEditor
    /\ [][NextEditor]_vars
    /\ WF_vars(PocEntryPoint)
    /\ WF_vars(CqContentLoaded)

\* ---------------------------------------------------- the host's markup
\* The engine of main.tsx on a page whose data attributes the host gets wrong
\* in every way, and rewrites.
AttributeMarkups ==
    { Markup("ProductCard", ValidProps,     undefined),
      Markup("Calculator",  undefined,      undefined),
      Markup("Calculator",  "",             undefined),
      Markup(undefined,     ValidProps,     undefined),
      Markup("",            ValidProps,     undefined),
      Markup("productcard", ValidProps,     undefined),
      Markup("ProductCard", MalformedProps, undefined) }

\* What the host rewrites a container's attributes to: a repaired markup, or
\* one that has lost its name.
RewrittenMarkups ==
    { Markup("ProductCard", ValidProps, undefined),
      Markup("Calculator",  "",         undefined),
      Markup("",            ValidProps, undefined) }

\* The host rewrites the data attributes of a container.  No handler of the
\* engine runs: the console keeps the lines of the last one.
HostSetAttributes(c, markup) ==
    /\ dataset[c] # markup
    /\ hostOps < MaxHostOps
    /\ hostOps' = hostOps + 1
    /\ dataset' = [dataset EXCEPT ![c] = markup]
    /\ UNCHANGED <<linked, activeRoots, roots, console, observing, records, faulty,
                   wcmmode, granite, intersectionObservers, placeholder, lazy, clicks,
                   pageLoad, registered, reloads, initialized>>

NextAttributes ==
    \/ InitializeWidgets
    \/ CleanupAllWidgets
    \/ \E c \in Containers, markup \in RewrittenMarkups : HostSetAttributes(c, markup)

InitAttributes ==
    /\ dataset \in [Containers -> AttributeMarkups]
    /\ linked = Nodes
    /\ activeRoots = <<>>
    /\ roots = [c \in Containers |-> <<>>]
    /\ console = <<>>
    /\ observing = FALSE
    /\ hostOps = 0
    /\ records = <<>>
    /\ faulty = [c \in Containers |-> "none"]
    /\ wcmmode = "disabled"
    /\ granite = FALSE
    /\ intersectionObservers = [c \in Containers |-> 0]
    /\ placeholder = {}
    /\ lazy = registry
    /\ clicks = 0
    /\ PageLoaded
    /\ registered = {}
    /\ reloads = <<>>
    /\ initialized = {}

SpecAttributes == InitAttributes /\ [][NextAttributes]_vars

\* ------------------------------------------------------------ the claims
\* The last handler was a scan: its first console line says so.
Scanned == console # <<>> /\ console[1].message = "Scanning for widgets..."

\* This step is a scan.
ScanStep == console' # <<>> /\ console'[1].message = "Scanning for widgets..."

tracked(c) == has(activeRoots, c)

Said(out, level, message, subject) ==
    \E i \in 1..Len(out) : out[i] = Diag(level, message, subject)

\* A container as the host should write it: a registered name, and props that
\* are absent or parse.
Valid(c) ==
    /\ dataset[c].widgetComponent \in registryKeys
    /\ Falsy(dataset[c].props) \/ ~JSONparse(dataset[c].props).threw

\* C1: in every reachable state each container has at most one live root
\* (created and not yet unmounted); mountWidget on a tracked container
\* creates no second one.
C1_AtMostOneLiveRoot ==
    \A c \in Containers : Cardinality(liveRoots(c)) <= 1

\* mountWidget has just been called on a tracked container, which has its one
\* live root.
C1_Witness ==
    \E c \in Containers :
        /\ Said(console, "warn", "Widget already mounted", c)
        /\ tracked(c)
        /\ Cardinality(liveRoots(c)) = 1

\* The containers of the document.
InPage == {c \in Containers : inDocument(c)}

\* C2: on a page whose containers all have a registered name and valid props,
\* one scan on an empty table ends with one entry per container of the page
\* and no other.
C2_ScanMountsEveryValidContainer ==
    [][(ScanStep /\ activeRoots = <<>> /\ \A c \in InPage : Valid(c))
        => /\ Len(activeRoots') = Cardinality(InPage)
           /\ keys(activeRoots') = InPage]_vars

\* A scan has just mounted every container of a page of valid containers.
C2_Witness ==
    /\ Scanned
    /\ InPage = Containers
    /\ \A c \in Containers : Valid(c) /\ Said(console, "log", "Mounted", c)
    /\ Len(activeRoots) = NumContainers

\* The rendering of a root of container c ends with its component throwing.
RenderFails(c) ==
    \E r \in 1..Len(roots[c]) :
        /\ roots[c][r].status = "rendering"
        /\ Len(roots'[c]) = Len(roots[c])
        /\ roots'[c][r].status = "failed"

\* C3: a widget whose component throws while rendering takes no other widget
\* with it: the step in which it fails leaves the table and every other
\* container's roots as they were, and a scan still ends with every valid
\* container of the page tracked with a live root.
C3_ErrorIsolation ==
    [][/\ \A c \in Containers :
            RenderFails(c) =>
                /\ activeRoots' = activeRoots
                /\ \A d \in Containers \ {c} : roots'[d] = roots[d]
       /\ ScanStep =>
            \A d \in InPage :
                Valid(d) =>
                    /\ has(activeRoots', d)
                    /\ roots'[d][get(activeRoots', d).root].status # "unmounted"]_vars

\* One widget has failed, another is tracked and was rendered after it.
C3_Witness ==
    \E c, d \in Containers :
        /\ c # d
        /\ tracked(c) /\ roots[c][get(activeRoots, c).root].status = "failed"
        /\ tracked(d) /\ roots[d][get(activeRoots, d).root].status = "rendered"

\* The valid containers of the page are tracked after this step.
ValidOnesTracked == \A d \in InPage : Valid(d) => has(activeRoots', d)

\* C4: a scan that meets an untracked container whose data-props is malformed
\* JSON logs an error, creates no root and no entry for it, and mounts the
\* valid containers of the page.
C4_MalformedPropsSkipped ==
    [][ScanStep =>
        \A c \in InPage :
            (/\ ~tracked(c)
             /\ dataset[c].widgetComponent \in registryKeys
             /\ ~Falsy(dataset[c].props)
             /\ JSONparse(dataset[c].props).threw)
            => /\ Said(console', "error", "Invalid props JSON", dataset[c].props)
               /\ roots'[c] = roots[c]
               /\ ~has(activeRoots', c)
               /\ ValidOnesTracked]_vars

\* C5: a scan that meets an untracked container naming a component that is
\* not a key of the registry logs a warning, creates no root and no entry for
\* it, and mounts the valid containers of the page.
C5_UnregisteredSkipped ==
    [][ScanStep =>
        \A c \in InPage :
            (/\ ~tracked(c)
             /\ ~Falsy(dataset[c].widgetComponent)
             /\ dataset[c].widgetComponent \notin registryKeys)
            => /\ Said(console', "warn", "not found in registry", c)
               /\ roots'[c] = roots[c]
               /\ ~has(activeRoots', c)
               /\ ValidOnesTracked]_vars

\* C6: after a scan, for the name on each container: registry[name] and
\* isRegisteredWidget(name) find a component exactly when the name is one of
\* the registered keys, and a container with any other name has no root.
C6_ExactKeyLookup ==
    Scanned =>
        \A c \in Containers :
            LET name == dataset[c].widgetComponent
            IN  /\ (registryGet(name) # undefined) <=> (name \in registryKeys)
                /\ isRegisteredWidget(name) <=> (name \in registryKeys)
                /\ name \notin registryKeys => roots[c] = <<>>

\* C7: a scan that follows a scan changes neither the table nor any root.
C7_RescanIdempotent ==
    [][(Scanned /\ ScanStep) => (activeRoots' = activeRoots /\ roots' = roots)]_vars

\* A scan has just met every container of the page already tracked.
C7_Witness ==
    /\ Scanned
    /\ \A c \in Containers : tracked(c) /\ Said(console, "warn", "Widget already mounted", c)

\* C8: a scan that follows a scan warns of no container that it is already
\* mounted.
C8_RescanSilent ==
    [][(Scanned /\ ScanStep) =>
        \A c \in Containers : ~Said(console', "warn", "Widget already mounted", c)]_vars

\* This step is the observer's callback: it alone empties the queue.
ObserverStep == records # <<>> /\ records' = <<>>

Removed(c) == \E i \in 1..Len(records) : records[i] = c

\* C9: when the observer's callback has processed the removal of a
\* container's node, the table holds no entry for that container.
C9_RemovedContainerUntracked ==
    [][ObserverStep =>
        \A c \in Containers : Removed(c) => ~has(activeRoots', c)]_vars

\* The observer has unmounted the root of a container that the host took out
\* of the document, and the container has no entry.
C9_Witness ==
    \E c \in Containers :
        /\ ~inDocument(c)
        /\ ~tracked(c)
        /\ \E r \in 1..Len(roots[c]) : roots[c][r].unmounts = <<"observer">>

\* C10: root.unmount() has been called exactly once on every root whose entry
\* has left the table and never on the root of an entry of the table.
C10_UnmountedExactlyOnce ==
    \A c \in Containers :
        \A r \in 1..Len(roots[c]) :
            IF tracked(c) /\ get(activeRoots, c).root = r
            THEN roots[c][r].unmounts = <<>>
            ELSE Len(roots[c][r].unmounts) = 1

\* One root was unmounted by the observer, one by unmountWidget, and one is
\* still tracked.
C10_Witness ==
    /\ \E c \in Containers : \E r \in 1..Len(roots[c]) :
            roots[c][r].unmounts = <<"observer">>
    /\ \E c \in Containers : \E r \in 1..Len(roots[c]) :
            roots[c][r].unmounts = <<"unmountWidget">>
    /\ \E c \in Containers : tracked(c)

\* The container is a removed node of the batch or lies under one.
InRemovedSubtree(c) ==
    \E i \in 1..Len(records) :
        \/ records[i] = c
        \/ records[i] = parentNode(c) /\ c \in linked

\* C11: when the observer's callback has processed a batch, no container that
\* is a removed node of the batch, or a descendant of one, has an entry.
C11_RemovedSubtreeUntracked ==
    [][ObserverStep =>
        \A c \in Containers : InRemovedSubtree(c) => ~has(activeRoots', c)]_vars

\* C12: once the observer has no removal left to process, every container of
\* the table is attached to the document.
C12_TrackedAreAttached ==
    records = <<>> => \A c \in Containers : tracked(c) => inDocument(c)

\* The browser reported an exception that left the last handler.
Uncaught(out) == Said(out, "error", "Uncaught", Body)

\* C13: cleanupAllWidgets() calls unmount() on the root of every entry of the
\* table, also when one of the calls throws, and leaves the table empty.
C13_CleanupAllEmptiesTable ==
    [][CleanupAllWidgets =>
        /\ activeRoots' = <<>>
        /\ \A i \in 1..Len(activeRoots) :
              Len(roots'[activeRoots[i].container][activeRoots[i].root].unmounts)
                > Len(roots[activeRoots[i].container][activeRoots[i].root].unmounts)]_vars

\* C14: unmountWidget on a container without an entry throws nothing and
\* changes neither the table nor any root; and unmountWidget leaves its
\* container without an entry, so a second call is such a call.
C14_UnmountUntrackedIsNoOp ==
    [][\A c \in Containers :
        UnmountWidget(c) =>
            /\ ~has(activeRoots', c)
            /\ ~tracked(c) => /\ activeRoots' = activeRoots
                              /\ roots' = roots
                              /\ ~Uncaught(console')]_vars

\* A container was mounted and unmounted, and then a call that found nothing
\* to unmount returned.
C14_Witness ==
    /\ console = <<>>
    /\ activeRoots = <<>>
    /\ \E c \in Containers :
          /\ Len(roots[c]) = 1
          /\ roots[c][1].unmounts = <<"unmountWidget">>
          /\ \A d \in Containers \ {c} : roots[d] = <<>>

\* Root r of container c is the one the table holds for c.
IsTrackedRoot(c, r) == tracked(c) /\ get(activeRoots, c).root = r

\* C15: a root that was unmounted, or whose entry has left the table, renders
\* nothing any more: when the lazy component resolves later, the status of
\* that root stays as it is, whether or not the container has a new root.
C15_StaleResolutionDiscarded ==
    [][\A c \in Containers :
        \A r \in 1..Len(roots[c]) :
            (roots[c][r].status = "unmounted" \/ ~IsTrackedRoot(c, r))
                => roots'[c][r].status = roots[c][r].status]_vars

\* A container was unmounted and mounted again, and the component has
\* rendered into its new root; the old root is still torn down.
C15_Witness ==
    \E c \in Containers :
        /\ Len(roots[c]) = 2
        /\ roots[c][1].status = "unmounted"
        /\ IsTrackedRoot(c, 2)
        /\ roots[c][2].status = "rendered"

\* C16: with the guide's engine, whatever the order of the first scan, the
\* scans for cq-contentloaded, the IntersectionObserver callbacks and the
\* MutationObserver callbacks, every live root is the one the table holds
\* for its container, so no container has two.
C16_NoDoubleMountInterleaved ==
    \A c \in Containers :
        /\ \A r \in liveRoots(c) : IsTrackedRoot(c, r)
        /\ Cardinality(liveRoots(c)) <= 1

\* A lazy container that several scans looked at was mounted by the callback
\* of one of its observers while another is still connected.
C16_Witness ==
    \E c \in Containers :
        /\ dataset[c].lazyHydrate = "true"
        /\ tracked(c)
        /\ Cardinality(liveRoots(c)) = 1
        /\ intersectionObservers[c] >= 1

\* C17: when createRoot throws for one container during a scan, no exception
\* leaves the scan and every valid container whose root can be created is
\* tracked when the scan ends.
C17_ScanContainsMountErrors ==
    [][ScanStep =>
        /\ ~Uncaught(console')
        /\ \A d \in InPage :
              (Valid(d) /\ faulty[d] # "createRoot") => has(activeRoots', d)]_vars

\* C18: when the unmount for one record of a batch throws, the callback still
\* handles the other records of the batch, so every removed container whose
\* unmount does not throw loses its entry, and the observer stays connected.
C18_ObserverSurvivesBadRecord ==
    [][ObserverStep =>
        /\ observing'
        /\ \A c \in Containers :
              (/\ Removed(c)
               /\ tracked(c)
               /\ ~unmountThrows(roots, c, get(activeRoots, c).root))
                  => ~has(activeRoots', c)]_vars

\* The user retries root r of container c in this step.
Retried(c, r) ==
    /\ clicks' = clicks + 1
    /\ roots[c][r].status = "fallback"
    /\ roots'[c][r].status = "rendering"

\* C19: a root whose boundary shows the fallback shows it in the next state
\* too, unless the root is unmounted or the user retries it; whatever React
\* renders again and whatever the import does, it does not go back to its
\* children on its own.
C19_FailedStaysFailed ==
    [][\A c \in Containers :
        \A r \in 1..Len(roots[c]) :
            roots[c][r].status = "fallback"
                => \/ roots'[c][r].status \in {"fallback", "unmounted"}
                   \/ Retried(c, r)]_vars

\* A boundary shows the fallback although its component has loaded and the
\* user never retried: the children threw once, and it stays failed.
C19_Witness ==
    \E c \in Containers :
        /\ tracked(c)
        /\ roots[c][get(activeRoots, c).root].status = "fallback"
        /\ lazy[roots[c][get(activeRoots, c).root].component] = "resolved"
        /\ clicks = 0

\* C20: a retry of a widget whose component failed to load starts a new
\* import of that component.
C20_RetryReloadsComponent ==
    [][\A c \in Containers :
        \A r \in 1..Len(roots[c]) :
            (Retried(c, r) /\ lazy[roots[c][r].component] = "rejected")
                => lazy'[roots[c][r].component] \in {"uninitialized", "pending"}]_vars

\* C21: the containers in the table are exactly the containers that have a
\* live root: no live root is untracked, also when root.render throws after
\* createRoot or when mountWidget is called twice on a container, and no
\* tracked root has been unmounted.
C21_TrackedIffLive ==
    /\ \A c \in Containers : tracked(c) <=> liveRoots(c) # {}
    /\ \A c \in Containers :
          tracked(c) => get(activeRoots, c).root \in liveRoots(c)

\* The roots that were ever made for component `name`.
MountedAs(name) ==
    {<<c, r>> \in Containers \X (1..MaxRoots) :
        r <= Len(roots[c]) /\ roots[c][r].component = name}

\* C22: the dynamic import of a registered component has started only if a
\* container naming that component has been mounted; on a page where no
\* container names a component, its import never starts.
C22_ImportOnlyWhenMounted ==
    \A name \in registryKeys :
        /\ lazy[name] # "uninitialized" => MountedAs(name) # {}
        /\ (\A c \in Containers : dataset[c].widgetComponent # name)
              => lazy[name] = "uninitialized"

\* Every container names ProductCard, one is mounted and rendered: the import
\* of ProductCard has started, that of Calculator has not.
C22_Witness ==
    /\ \A c \in Containers : dataset[c].widgetComponent = "ProductCard"
    /\ MountedAs("ProductCard") # {}
    /\ lazy["ProductCard"] \in {"pending", "resolved", "rejected"}
    /\ lazy["Calculator"] = "uninitialized"

C25_ObserverStartsFirst ==
    (executed = "main.jsx" /\ \E c \in Containers : tracked(c)) => observing

\* C25, amended: initialize() starts the observer right after its initial
\* pass, in the same run: every change the host makes to the DOM once the
\* pass has run finds the observer watching.
C25_ObserverStartsWithScan ==
    [][(executed = "main.jsx" /\ initialScans > 0 /\ hostOps' # hostOps)
          => observing]_vars

\* The initial pass of main.jsx mounted a container, and a removal the host
\* made afterwards is waiting for the observer's callback.
C25_Witness ==
    /\ executed = "main.jsx"
    /\ initialScans = 1
    /\ observing
    /\ records # <<>>
    /\ \E c \in Containers : tracked(c)

\* The editor has replaced the node of the mounted container `old` by the
\* node of `new` and has triggered the reload; the event is yet to be handled.
Replaced(old, new) ==
    /\ old # new
    /\ tracked(old)
    /\ ~inDocument(old)
    /\ inDocument(new)
    /\ Valid(new)
    /\ reloads # <<>>
    /\ reloads[Len(reloads)] = parentNode(new)

\* C24: when the authoring host has replaced a mounted container's node by a
\* new node and signalled the reload, the engine eventually unmounts the old
\* root and drops its entry, and eventually tracks the new container (unless
\* the host has put the old node back, or has taken the new one out again).
C24_ReplacedContainerRemounted ==
    \A old, new \in Containers :
        /\ Replaced(old, new) ~> (~tracked(old) \/ inDocument(old))
        /\ Replaced(old, new) ~> (tracked(new) \/ ~inDocument(new))

\* This step is a scan: its console begins with the scan's line, and it is
\* not the host rewriting attributes under the lines of an earlier scan.
ScansNow == ScanStep /\ dataset' = dataset

\* A diagnostic of the engine about container c.
Warned(out, c) ==
    \E i \in 1..Len(out) : out[i].level = "warn" /\ out[i].subject = c

Renders(map, rs, c, Component, props) ==
    /\ has(map, c)
    /\ LET r == get(map, c).root
       IN  /\ r \in 1..Len(rs[c])
           /\ rs[c][r].status # "unmounted"
           /\ rs[c][r].component = Component
           /\ rs[c][r].props = props

\* An error line about c or about its data-props.
ErrorAbout(out, c) ==
    \E i \in 1..Len(out) :
        /\ out[i].level = "error"
        /\ IF out[i].message = "Invalid props JSON"
           THEN out[i].subject = dataset[c].props
           ELSE out[i].subject = c

\* C27: a container in the page with a registered name whose data-props is
\* absent or the empty string is mounted by a scan with empty props, and no
\* error diagnostic is emitted for it.
C27_NoPropsMeansEmptyProps ==
    [][ScansNow =>
         \A c \in Containers :
             (/\ inDocument(c)
              /\ ~tracked(c)
              /\ dataset[c].widgetComponent \in registryKeys
              /\ Falsy(dataset[c].props)) =>
                 /\ Renders(activeRoots', roots', c, dataset[c].widgetComponent, {})
                 /\ ~ErrorAbout(console', c)]_vars

\* A scan has just mounted a Calculator without data-props and one whose
\* data-props is empty, both with empty props, and wrote no error.
C27_Witness ==
    /\ Scanned
    /\ \E c, d \in Containers :
          /\ dataset[c] = Markup("Calculator", undefined, undefined)
          /\ dataset[d] = Markup("Calculator", "", undefined)
          /\ Renders(activeRoots, roots, c, "Calculator", {})
          /\ Renders(activeRoots, roots, d, "Calculator", {})
          /\ Said(console, "log", "Mounted", c)
          /\ Said(console, "log", "Mounted", d)
          /\ \A i \in 1..Len(console) : console[i].level # "error"

\* The last handler was a scan, and it said that it skips c or that the
\* props of c do not parse.
Skipped(c) ==
    /\ Scanned
    /\ \/ Said(console, "warn", "not found in registry", c)
       \/ Said(console, "warn", "No widget-component specified", c)
       \/ ErrorAbout(console, c)

\* The table holds a live root for c.
Mounted(map, rs, c) ==
    /\ has(map, c)
    /\ get(map, c).root \in 1..Len(rs[c])
    /\ rs[c][get(map, c).root].status # "unmounted"

C29_RegisterLeavesTableAndRoots ==
    [][(\E name \in RegistrableNames : RegisterComponent(name)) =>
          /\ activeRoots' = activeRoots
          /\ roots' = roots
          /\ dataset' = dataset]_vars

\* The initial scan skipped a container naming "productcard"; the name has
\* been registered since, and the container is as it was: no root, no entry.
C29_Witness ==
    /\ observing
    /\ hostOps = 0
    /\ "productcard" \in registered
    /\ console = <<>>
    /\ \E c \in Containers :
          /\ dataset[c].widgetComponent = "productcard"
          /\ ~tracked(c)
          /\ roots[c] = <<>>
    /\ \E d \in Containers : tracked(d)

\* C30: mountWidget(c) and unmountWidget(c) change the entry and the roots of
\* c only: every other container keeps its entry and its roots as they
\* were, also when it names the same component as c.
C30_OnlyItsOwnContainer ==
    [][\A c \in Containers :
          (MountWidget(c) \/ UnmountWidget(c)) =>
              \A d \in Containers \ {c} :
                  /\ roots'[d] = roots[d]
                  /\ has(activeRoots', d) <=> tracked(d)
                  /\ tracked(d) => get(activeRoots', d) = get(activeRoots, d)]_vars

\* Two containers name ProductCard; one was mounted and has just been
\* unmounted, the other is tracked with its live root.
C30_Witness ==
    \E c, d \in Containers :
        /\ c # d
        /\ dataset[c].widgetComponent = "ProductCard"
        /\ dataset[d].widgetComponent = "ProductCard"
        /\ Said(console, "log", "Unmounted", c)
        /\ ~tracked(c)
        /\ Len(roots[c]) = 1 /\ liveRoots(c) = {}
        /\ Mounted(activeRoots, roots, d)

\* ------------------------------------------------ widgets under Suspense
\* The tree of the demo's mountWidget,
\*   <StrictMode><Suspense fallback=...><Component {...props} /></Suspense></StrictMode>
\* with the lazy components of the registry: a root's status is "rendering"
\* while Suspense shows the skeleton, "rendered" once the component has
\* rendered, "failed" when its import was rejected or it threw.

\* What React makes of <Component/> given how far its import has come.
suspenseRender(payload, outcome) ==
    CASE payload = "resolved" -> outcome
      [] payload = "rejected" -> "failed"
      [] OTHER -> "rendering"

\* React renders the tree of root r of container c: the first rendering of a
\* lazy component starts its import; while that is pending the root stays
\* suspended.
SuspenseRender(c, r, outcome) ==
    /\ r \in 1..Len(roots[c])
    /\ roots[c][r].status = "rendering"
    /\ LET name    == roots[c][r].component
           payload == lazyInit(lazy[name])
           status  == suspenseRender(payload, outcome)
       IN  /\ lazy' = [lazy EXCEPT ![name] = payload]
           /\ roots' = renderSettles(roots, c, r, status)
           /\ console' = IF status = "failed"
                         THEN <<Diag("error", "Uncaught error while rendering", c)>>
                         ELSE <<>>
    /\ UNCHANGED <<dataset, linked, activeRoots, observing, hostOps, records, faulty,
                   guideOnly, clicks, pageLoad, registered, reloads, initialized>>

\* The demo's engine with React and the imports of the lazy components as
\* separate steps: an import may settle at any time, or never.
NextSuspense ==
    \/ InitializeWidgets
    \/ \E c \in Containers : MountWidget(c)
    \/ \E c \in Containers : UnmountWidget(c)
    \/ \E c \in Containers, r \in 1..MaxRoots,
          outcome \in {"rendered", "failed"} : SuspenseRender(c, r, outcome)
    \/ \E name \in registryKeys,
          payload \in {"resolved", "rejected"} : LazySettles(name, payload)

SuspenseMarkups ==
    { Markup("ProductCard", ValidProps, undefined),
      Markup("Calculator",  undefined,  undefined) }

InitSuspense ==
    /\ Init
    /\ \A c \in Containers : dataset[c] \in SuspenseMarkups

SpecSuspense == InitSuspense /\ [][NextSuspense]_vars

\* ------------------------------------------- the universal mount script
\* The mount script of the architecture document (main.js): mountWidget
\* without a look at the table, which marks the container
\* data-react-initialized; a scan that selects the containers without that
\* mark; unmountAllWidgets for the navigation of a single-page application.

\* Own keys of componentRegistry that the pages here name.
componentRegistryKeys == {"ProductCard", "CalculatorWidget"}

\* getComponent(name): componentRegistry[name], a property read; null, with
\* an error line, when that is falsy.
getComponent(name) ==
    IF name \in componentRegistryKeys \cup ObjectPrototype THEN name ELSE undefined

Universal(s, marks) ==
    [activeRoots |-> s.activeRoots, roots |-> s.roots, console |-> s.console,
     threw |-> s.threw, initialized |-> marks]

universalMountWidget(s, c) ==
    LET componentName == dataset[c].widgetComponent IN
    IF Falsy(componentName)
    THEN [s EXCEPT !.console = Append(@, Diag("warn", "missing data-react-component", c))]
    ELSE
    LET Component == getComponent(componentName) IN
    IF Component = undefined
    THEN [s EXCEPT !.console = Append(@, Diag("error", "not found in registry", c))]
    ELSE
    LET propsAttr == dataset[c].props
        parsed    == IF Falsy(propsAttr)
                     THEN [threw |-> FALSE, value |-> {}]
                     ELSE JSONparse(propsAttr)
        rs        == createRoot(s.roots, c, Component, parsed.value)
    IN  [s EXCEPT !.roots = rs,
                  !.activeRoots = set(@, c, Len(rs[c]), componentName),
                  !.console = IF parsed.threw
                              THEN Append(@, Diag("error", "Error parsing props", c))
                              ELSE @,
                  !.initialized = @ \cup {c}]

\* c matches '[data-react-component]:not([data-react-initialized])'.
universalSelects(marks, c) ==
    /\ dataset[c].widgetComponent # undefined
    /\ inDocument(c)
    /\ c \notin marks

RECURSIVE universalForEachMount(_, _)
universalForEachMount(containers, s) ==
    IF containers = <<>> THEN s
    ELSE CHOOSE result \in
             {universalForEachMount(rest, next) :
                 rest \in {Tail(containers)},
                 next \in {universalMountWidget(s, Head(containers))}} : TRUE

universalInitializeWidgets(s) ==
    universalForEachMount(
        inOrder({c \in Containers : universalSelects(s.initialized, c)}), s)

UniversalBecomes(s) ==
    /\ Becomes(s)
    /\ initialized' = s.initialized

UniversalFrame ==
    UNCHANGED <<dataset, linked, observing, hostOps, records, faulty, guideOnly, lazy,
                clicks, pageLoad, registered, reloads>>

\* initializeWidgets(): at page load, on turbo:load, or from a caller.
UniversalInitializeWidgets ==
    /\ UniversalBecomes(universalInitializeWidgets(Universal(Fresh, initialized)))
    /\ UniversalFrame

\* mountWidget(container), the exported function called directly.
UniversalMountWidget(c) ==
    /\ UniversalBecomes(universalMountWidget(Universal(Fresh, initialized), c))
    /\ UniversalFrame

\* unmountAllWidgets(): on turbo:before-cache, or from a caller.
UniversalUnmountAllWidgets ==
    /\ UniversalBecomes(Universal(unmountAllWidgets(Fresh), initialized))
    /\ UniversalFrame

NextUniversal ==
    \/ UniversalInitializeWidgets
    \/ \E c \in Containers : UniversalMountWidget(c)
    \/ UniversalUnmountAllWidgets
    \/ \E c \in Containers, r \in 1..MaxRoots,
          outcome \in {"rendered", "failed"} : Render(c, r, outcome)

UniversalMarkups ==
    { Markup("ProductCard", ValidProps,     undefined),
      Markup("ProductCard", MalformedProps, undefined),
      Markup("Calculator",  undefined,      undefined),
      Markup(undefined,     ValidProps,     undefined) }

InitUniversal ==
    /\ Init
    /\ \A c \in Containers : dataset[c] \in UniversalMarkups

SpecUniversal == InitUniversal /\ [][NextUniversal]_vars

\* c is marked data-lazy-hydrate="true".
LazyHydrate(c) == dataset[c].lazyHydrate = "true"

\* C31: for a container marked data-lazy-hydrate="true" a root is created
\* and an entry added only by the callback of its IntersectionObserver, so
\* none exists before it first intersects; the callback mounts a valid
\* container that has no entry, and the container never has two live roots.
C31_LazyMountedOnIntersection ==
    [][\A c \in Containers :
          LazyHydrate(c) =>
              /\ (roots'[c] # roots[c] /\ Len(roots'[c]) > Len(roots[c]))
                    => Intersect(c)
              /\ (has(activeRoots', c) /\ ~tracked(c)) => Intersect(c)
              /\ (Intersect(c) /\ ~tracked(c) /\ Valid(c) /\ getWCMMode # "edit")
                    => /\ Mounted(activeRoots', roots', c)
                       /\ Len(roots'[c]) = Len(roots[c]) + 1
              /\ Cardinality({r \in 1..Len(roots'[c]) :
                                  roots'[c][r].status # "unmounted"}) <= 1]_vars

\* Two scans gave a lazy container two IntersectionObservers; the callback of
\* one has mounted it, once, and the other is still connected.
C31_Witness ==
    \E c \in Containers :
        /\ LazyHydrate(c)
        /\ Mounted(activeRoots, roots, c)
        /\ Len(roots[c]) = 1
        /\ intersectionObservers[c] >= 1

\* C32: while the WCM mode is edit no container has a React root or an entry
\* in activeRoots, whatever scans and intersections have run; mountWidget has
\* written its placeholder, and only into containers that name a registered
\* component and whose props parse.
C32_EditModeOnlyPlaceholder ==
    getWCMMode = "edit" =>
        /\ \A c \in Containers : roots[c] = <<>> /\ ~tracked(c)
        /\ \A c \in placeholder :
               /\ guideRegistryGet(dataset[c].widgetComponent) # undefined
               /\ ~JSONparse(dataset[c].props).threw
        /\ \A c \in Containers : dataset[c].reactMounted = undefined

\* In edit mode a scan has written the placeholder of one container and an
\* intersection that of a lazy one.
C32_Witness ==
    /\ getWCMMode = "edit"
    /\ observing
    /\ \E c \in placeholder : ~LazyHydrate(c)
    /\ \E c \in placeholder : LazyHydrate(c)

\* The lines of an output that end a mount attempt on a container: mounted,
\* or skipped with a warning.
Attempts(out) ==
    {i \in 1..Len(out) :
        out[i].message \in {"Mounted", "not found in registry",
                            "No widget-component specified"}}

\* C33: within one scan the containers are handled in document order: the
\* lines that end the mount attempts, one for every discovered container that
\* had no entry, follow each other in document order, and so do the entries
\* the scan adds to the table.
C33_ScanInDocumentOrder ==
    [][ScansNow =>
          /\ \A i, j \in Attempts(console') :
                 i < j => console'[i].subject < console'[j].subject
          /\ \A c \in Containers :
                 (inDocument(c) /\ ~tracked(c))
                     => \E i \in Attempts(console') : console'[i].subject = c
          /\ \A i, j \in 1..Len(activeRoots') :
                 ( /\ i < j
                   /\ ~tracked(activeRoots'[i].container)
                   /\ ~tracked(activeRoots'[j].container) )
                     => activeRoots'[i].container < activeRoots'[j].container]_vars

\* A scan has attempted two containers, skipping the earlier one of the
\* document and mounting the later one.
C33_Witness ==
    /\ Scanned
    /\ \E i, j \in Attempts(console) :
           /\ i < j
           /\ console[i].subject < console[j].subject
           /\ console[i].level = "warn"
           /\ console[j].message = "Mounted"
           /\ tracked(console[j].subject)

\* The tracked root of a shows the Suspense fallback: the import of its lazy
\* component is pending.
Suspended(a) ==
    /\ Mounted(activeRoots, roots, a)
    /\ roots[a][get(activeRoots, a).root].status = "rendering"
    /\ lazy[roots[a][get(activeRoots, a).root].component] = "pending"

\* C34: while the lazy component of a mounted container a is pending, what is
\* done to any other container b is done in that step, without the import of
\* a settling: a direct mount and a scan mount b, an unmount takes its
\* entry and root away, the rendering of a root of b whose own component has
\* resolved is enabled and shows the component; and none of it touches the
\* roots of a.
C34_OthersDoNotWait ==
    /\ [](\A a, b \in Containers :
            (a # b /\ Suspended(a)) =>
                \A r \in 1..Len(roots[b]) :
                    ( /\ roots[b][r].status = "rendering"
                      /\ lazy[roots[b][r].component] = "resolved" )
                        => ENABLED SuspenseRender(b, r, "rendered"))
    /\ [][\A a, b \in Containers :
            (a # b /\ Suspended(a)) =>
                /\ (MountWidget(b) /\ Valid(b) /\ ~tracked(b))
                      => /\ Mounted(activeRoots', roots', b)
                         /\ Len(roots'[b]) = Len(roots[b]) + 1
                         /\ roots'[a] = roots[a]
                /\ (UnmountWidget(b) /\ tracked(b))
                      => /\ ~has(activeRoots', b)
                         /\ roots'[b][get(activeRoots, b).root].status = "unmounted"
                         /\ roots'[a] = roots[a]
                /\ (InitializeWidgets /\ Valid(b) /\ inDocument(b))
                      => Mounted(activeRoots', roots', b)
                /\ \A r \in 1..Len(roots[b]) :
                      ( /\ SuspenseRender(b, r, "rendered")
                        /\ lazy[roots[b][r].component] = "resolved" )
                          => /\ roots'[b][r].status = "rendered"
                             /\ roots'[a] = roots[a]
                             /\ lazy' = lazy]_vars

\* The component of one container is still pending while another container,
\* mounted after it, has rendered its own.
C34_Witness ==
    \E a, b \in Containers :
        /\ a # b
        /\ Suspended(a)
        /\ Mounted(activeRoots, roots, b)
        /\ roots[b][get(activeRoots, b).root].status = "rendered"
        /\ \E i, j \in 1..Len(activeRoots) :
               i < j /\ activeRoots[i].container = a /\ activeRoots[j].container = b

\* c carries the marker data-react-mounted="true".
Marked(ds, c) == ds[c].reactMounted = "true"

\* This step is initWidgets(scope): the first scan of initialize(), or the
\* listener for cq-contentloaded.
ScansScope(scope) ==
    \/ scope = Body /\ GuideInitialize
    \/ ContentLoaded(scope)

\* C35 as stated: in every reachable state a container carries the marker
\* exactly when it has an entry in activeRoots, and after initWidgets(scope)
\* every container under scope with a registered component and valid props
\* carries the marker.
C35_MarkedIffTrackedAllValidMarked ==
    /\ [](\A c \in Containers : Marked(dataset, c) <=> tracked(c))
    /\ [][\A scope \in Nodes \cup {Body} :
            ScansScope(scope) =>
                \A c \in Containers :
                    (selects(dataset, scope, c) /\ Valid(c))
                        => Marked(dataset', c)]_vars

\* C35, amended: in every reachable state a container carries the marker
\* exactly when it has an entry in activeRoots, and outside edit mode, after
\* initWidgets(scope), every container under scope with a registered
\* component and valid props that is not marked data-lazy-hydrate="true"
\* carries the marker.
C35_MarkedIffTrackedEagerMarked ==
    /\ [](\A c \in Containers : Marked(dataset, c) <=> tracked(c))
    /\ [][\A scope \in Nodes \cup {Body} :
            (ScansScope(scope) /\ getWCMMode # "edit") =>
                \A c \in Containers :
                    (selects(dataset, scope, c) /\ Valid(c) /\ ~LazyHydrate(c))
                        => Marked(dataset', c) /\ has(activeRoots', c)]_vars

\* One container is mounted and marked; another was mounted, then unmounted
\* by the observer, and has lost both its entry and its marker.
C35_Witness ==
    /\ \E c \in Containers : Marked(dataset, c) /\ Mounted(activeRoots, roots, c)
    /\ \E d \in Containers :
           /\ roots[d] # <<>>
           /\ ~tracked(d)
           /\ ~Marked(dataset, d)

\* c names a component of the universal script's registry, with props that
\* are absent or parse.
UniversalValid(c) ==
    /\ dataset[c].widgetComponent \in componentRegistryKeys
    /\ Falsy(dataset[c].props) \/ ~JSONparse(dataset[c].props).threw

\* unmountAllWidgets has left the page as it is now: the table is empty and
\* every root made so far is unmounted.
AllUnmounted ==
    /\ activeRoots = <<>>
    /\ \E c \in Containers : roots[c] # <<>>
    /\ \A c \in Containers : liveRoots(c) = {}

\* C36: when the unmount-all operation has run, a scan of the unchanged
\* document mounts every valid container of the document again, and the
\* table holds one entry for each of them.
C36_RescanAfterUnmountAllMounts ==
    [][(AllUnmounted /\ UniversalInitializeWidgets) =>
          \A c \in Containers :
              (UniversalValid(c) /\ inDocument(c))
                  => /\ Mounted(activeRoots', roots', c)
                     /\ Cardinality({i \in 1..Len(activeRoots') :
                                        activeRoots'[i].container = c}) = 1]_vars

\* C37: the observer's callback unmounts a tracked container only if the
\* container is absent from the document when the batch is processed: a
\* mounted container that is in the document then, such as one the host took
\* out and put back before the callback ran, keeps its entry and its live
\* root.
C37_MovedContainerStaysMounted ==
    [][ObserverStep =>
        \A c \in Containers :
            (Mounted(activeRoots, roots, c) /\ inDocument(c))
                => /\ Mounted(activeRoots', roots', c)
                   /\ get(activeRoots', c).root = get(activeRoots, c).root]_vars

\* c is a descendant of scope.
Under(scope, c) ==
    IF scope = Body THEN inDocument(c)
    ELSE parentNode(c) = scope /\ c \in linked

\* C38: initWidgets(scope) adds entries only for containers that are
\* descendants of scope, leaves the roots and the entries of the containers
\* outside scope as they are, and neither removes nor replaces an entry that
\* was in the table.
C38_ScopedScanFrame ==
    [][\A scope \in Nodes \cup {Body} :
          ScansScope(scope) =>
              /\ \A c \in Containers :
                     (has(activeRoots', c) /\ ~tracked(c)) => Under(scope, c)
              /\ \A c \in Containers :
                     ~Under(scope, c)
                         => /\ roots'[c] = roots[c]
                            /\ has(activeRoots', c) <=> tracked(c)
                            /\ dataset'[c] = dataset[c]
                            /\ intersectionObservers'[c] = intersectionObservers[c]
              /\ Len(activeRoots') >= Len(activeRoots)
              /\ \A i \in 1..Len(activeRoots) : activeRoots'[i] = activeRoots[i]
              /\ \A c \in Containers :
                     \A r \in 1..Len(roots[c]) :
                         r <= Len(roots'[c]) /\ roots'[c][r] = roots[c][r]]_vars

\* A scan scoped to the wrapper has mounted the container inside it a second
\* time, after the entry of a container outside the wrapper, which still has
\* its first root.
C38_Witness ==
    \E c, d \in Containers :
        /\ parentNode(c) = Wrapper
        /\ parentNode(d) # Wrapper
        /\ Mounted(activeRoots, roots, c)
        /\ get(activeRoots, c).root = 2
        /\ Mounted(activeRoots, roots, d)
        /\ get(activeRoots, d).root = 1
        /\ \E i, j \in 1..Len(activeRoots) :
               i < j /\ activeRoots[i].container = d /\ activeRoots[j].container = c
====
